---- MODULE Spec2Model ----
(***************************************************************************)
(* Model of the Keystone -> apps synchronisation run (src/main.py,         *)
(* src/manager.py, src/managers.py).                                       *)
(*                                                                         *)
(* The run is sequential.  Its state is the call stack of the Python       *)
(* program, the in-memory mappings of every manager instance (ks_data,     *)
(* apps_data), the run_once flags, and the local variables of the loops.   *)
(* Every HTTP request is one step whose response is chosen by the remote.  *)
(* The export files and the remote collections are read lazily: a record   *)
(* is chosen when the program reads it.                                    *)
(*                                                                         *)
(* The modelled run is the chain courses -> sections of main.sync with     *)
(* the academic_years reference entity; field maps keep the key, the       *)
(* resolver fields and the first plain field of each entity.  Every manager *)
(* instance fetches the collection URL map on its first self.url.          *)
(*                                                                         *)
(* should_update and ParentManager.split are also run on their own, over   *)
(* all small arguments (SpecSU, SpecParents).                              *)
(***************************************************************************)
EXTENDS Integers, Sequences, FiniteSets, TLC

VARIABLES
    stack,       \* call stack: frames [op, m, pc, key], innermost last
    main_i,      \* main.sync: index in SyncOrder of the next entity to sync
    exit_code,   \* main's return value, -1 while running
    ran,         \* run_once flags, per manager instance and operation
    ks_data,     \* per manager: key -> translated local record (desired)
    apps_data,   \* per manager: key -> remote record (current)
    ks_n,        \* load_ks_data: number of records of the export file
    ks_i,        \* load_ks_data: records read so far
    pages,       \* load_apps_data: pages fetched so far
    tr_rec,      \* translate: the local record being translated
    tr_out,      \* translate: the out dict built so far
    tr_pos,      \* translate: position in field_map
    todo,        \* per manager and phase: members of the set not yet visited
    ret,         \* value returned by the last get_url_for_key
    sent,        \* history: per manager and method, key -> requests sent
    last_req,    \* history: the last mutating request [method, m, key, body]
    loads,       \* history: per manager, times each load body started
    view,        \* history: per manager and phase, the set computed and the key sets it was computed from
    done,        \* history: per manager and operation, body ran to its end
    created,     \* history: per manager, key -> url stored by a successful create
    lookup,      \* history: the last SyncManager.get_url_for_key that returned
    accepted,    \* history: per manager, sub-records that passed get_key_value in load_ks_data
    error,       \* history: the uncaught exception that ended the run
    url_map,     \* per manager: what @cache holds for get_url_map(self)
    url_i,       \* get_url_map: iterations of "for i in range(10)" done so far
    last_get,    \* history: the last GET of the root document [m, attempt, outcome, slept]
    failed,      \* history: some request of the run was not answered 2xx
    tr_hist,     \* history: per manager, the translations of the export being read
    dropped,     \* history: per manager, keys of local records translate rejected
    pass,        \* 0: the single run; 1, 2: first and second run against one remote
    export,      \* two runs: per manager, the records of the export file read so far
    remote,      \* two runs: per manager, the collection the remote holds [known, data]
    su,          \* should_update harness: [desired, current, result]
    sp           \* ParentManager harness: [record, pc, subs, i, ks_data]

vars == <<stack, main_i, exit_code, ran, ks_data, apps_data, ks_n, ks_i, pages,
          tr_rec, tr_out, tr_pos, todo, ret, sent, last_req, loads, view, done,
          created, lookup, accepted, error, url_map, url_i, last_get,
          failed, tr_hist, dropped, pass, export, remote, su, sp>>

-----------------------------------------------------------------------------
(* Bounds *)

\* records in one export file
MaxRecords == 2
\* pages of one remote collection
MaxPages == 2

-----------------------------------------------------------------------------
(* Values.  Every field value is a string; None is Python's None. *)

None == "None"

\* Python truthiness of a field value: None and the empty string are falsy
Falsy(v) == v \in {None, ""}

\* str.strip() on the values the exports hold
Strip(v) ==
    CASE v = "C2 " -> "C2"
      [] v = " "   -> ""
      [] OTHER     -> v

EmptyRec == [f \in {} |-> None]

\* dict with one more item
Put(d, k, v) == [x \in DOMAIN d \cup {k} |-> IF x = k THEN v ELSE d[x]]

-----------------------------------------------------------------------------
(* The manager classes of src/managers.py that the run instantiates *)

SyncManagers == {"courses", "sections"}
GetOrCreateManagers == {"academic_years"}
Managers == SyncManagers \cup GetOrCreateManagers

SyncOrder_sections_first == <<"sections", "courses">>

\* main.sync: the order of the .sync() calls
SyncOrder == <<"courses", "sections">>

\* key_name of the managers that use AppsManager.get_key_value
key_name(m) ==
    CASE m = "courses"        -> "number"
      [] m = "academic_years" -> "year"
      [] OTHER                -> None

\* field_map: (apps_attr, ks_attr) pairs in order
field_map(m) ==
    CASE m = "courses"  -> << <<"number", "CourseNumber">>,
                              <<"course_name", "CourseName">> >>
      [] m = "sections" -> << <<"academic_year", "AcademicYear">>,
                              <<"course", "CourseNumber">>,
                              <<"csn", "CourseSectionNumber">> >>
      [] OTHER          -> << >>

\* field_translations: apps_attr -> the manager whose get_url_for_key resolves it
field_translations(m) ==
    IF m = "sections"
    THEN [a \in {"academic_year", "course"} |->
             IF a = "course" THEN "courses" ELSE "academic_years"]
    ELSE EmptyRec

required_fields(m) ==
    IF m = "sections" THEN <<"course", "csn", "academic_year">> ELSE << >>

\* the order in which a translated record's items were inserted
FieldOrder(m) == [i \in 1..Len(field_map(m)) |-> field_map(m)[i][1]]

-----------------------------------------------------------------------------
(* Keys, identity URLs and record comparison *)

InvalidRecord == {"MissingKey", "MissingKeyValue", "MissingRequiredValue"}

\* get_key_value: <<exception, key>>, the exception "" when a key is returned.
\* SectionManager overrides it with a tuple of two fields and checks nothing.
get_key_value(m, record) ==
    IF m = "sections"
    THEN IF {"academic_year", "csn"} \subseteq DOMAIN record
         THEN <<"", <<record["academic_year"], record["csn"]>> >>
         ELSE <<"KeyError", None>>
    ELSE IF key_name(m) \notin DOMAIN record THEN <<"MissingKey", None>>
         ELSE IF Falsy(record[key_name(m)]) THEN <<"MissingKeyValue", None>>
         ELSE <<"", record[key_name(m)]>>

KeyStr(m, k) == IF m = "sections" THEN k[1] \o "," \o k[2] ELSE k

\* the identity URL the remote gives the record of key k: tag "old" for a
\* record that existed before the run, "new" for one created during it
Url(m, k, tag) == "/" \o m \o "/" \o KeyStr(m, k) \o "/" \o tag

RECURSIVE should_update_from(_, _, _, _)
should_update_from(desired, current, order, i) ==
    IF i > Len(order) THEN "False"
    ELSE IF order[i] \notin DOMAIN desired
         THEN should_update_from(desired, current, order, i + 1)
         ELSE IF order[i] \notin DOMAIN current THEN "KeyError"
              ELSE IF current[order[i]] # desired[order[i]] THEN "True"
                   ELSE should_update_from(desired, current, order, i + 1)

\* should_update: "True", "False", or "KeyError" when current[attr_name]
\* raises; order is the insertion order of desired's items
should_update(desired, current, order) ==
    should_update_from(desired, current, order, 1)

-----------------------------------------------------------------------------
(* What the export files and the remote can hold *)

RawRecords(m) ==
    CASE m = "courses" ->
            {[CourseNumber |-> n, CourseName |-> "x"] : n \in {"C1", "C2 ", ""}}
            \cup {[CourseNumber |-> "C1"]}
      [] m = "sections" ->
            {[AcademicYear |-> y, CourseNumber |-> c, CourseSectionNumber |-> s] :
                y \in {"2024", ""}, c \in {"C1", "C2 "}, s \in {"1", "2"}}
      [] OTHER -> {}

YearUrl == Url("academic_years", "2024", "old")

RemoteRecords(m) ==
    CASE m = "courses" ->
            {[number |-> n, course_name |-> v, url |-> Url(m, n, "old")] :
                n \in {"C1", "C2"}, v \in {"x"}}
            \cup {[number |-> "C1", url |-> Url(m, "C1", "old")]}
            \cup {[course_name |-> "x", url |-> Url(m, "C2", "old")]}
      [] m = "sections" ->
            {[academic_year |-> YearUrl, course |-> Url("courses", c, "old"),
              csn |-> s, url |-> Url(m, <<YearUrl, s>>, "old")] :
                c \in {"C1", "C2"}, s \in {"1", "2"}}
      [] m = "academic_years" ->
            {[year |-> "2024", url |-> YearUrl], [url |-> YearUrl]}
      [] OTHER -> {}

\* the "results" of one page
PageResults(m) == {<< >>} \cup {<<r>> : r \in RemoteRecords(m)}

Statuses == {"2xx", "3xx", "4xx", "5xx"}

\* requests.Response.raise_for_status raises HTTPError for 4xx and 5xx
raise_for_status(status) == status \in {"4xx", "5xx"}

\* attribute names a 4xx error body of a create can report: "detail" (a
\* string), a field of the record, a name that is no field of the record
ErrorBodies(m) ==
    { {}, {"detail"}, {IF m = "sections" THEN "csn" ELSE key_name(m)},
      {"non_field_errors"} }

\* what a POST can answer: the status class, the kind of body ("record": the
\* JSON of the stored record with its url; "errors": a JSON object of error
\* messages; "text": no JSON), and the attribute names of an error object
CreateResponses(m) ==
    {[status |-> "2xx", body |-> "record", attrs |-> {}]}
    \cup {[status |-> "3xx", body |-> b, attrs |-> {}] : b \in {"text", "record"}}
    \cup {[status |-> "4xx", body |-> "errors", attrs |-> a] : a \in ErrorBodies(m)}
    \cup {[status |-> "5xx", body |-> b, attrs |-> {"detail"}] : b \in {"text", "errors"}}

-----------------------------------------------------------------------------
(* Initial state: every manager freshly constructed, main about to start *)

Phases == {"delete", "create", "update"}
Methods == {"DELETE", "POST", "PUT"}
Operations == {"sync", "load_ks_data", "load_apps_data", "delete", "create", "update"}

NoReq == [method |-> "", m |-> "", key |-> None, body |-> EmptyRec, status |-> ""]
NoLookup == [m |-> "", key |-> None, ret |-> None]
NoError == [exc |-> "", op |-> "", m |-> ""]
NoView == [at |-> FALSE, set |-> {}, desired |-> {}, current |-> {}]
NoSu == [desired |-> EmptyRec, current |-> EmptyRec, result |-> ""]
NoGet == [m |-> "", attempt |-> 0, outcome |-> "", slept |-> 0]
NoExport == [m \in Managers |-> << >>]
NoRemote == [m \in Managers |-> [known |-> FALSE, data |-> EmptyRec]]
NoSp == [record |-> EmptyRec, pc |-> "", subs |-> << >>, i |-> 0, ks_data |-> EmptyRec]

InitRun ==
    /\ stack = << >>
    /\ main_i = 1
    /\ exit_code = -1
    /\ ran = [m \in Managers |-> [op \in Operations |-> FALSE]]
    /\ ks_data = [m \in Managers |-> EmptyRec]
    /\ apps_data = [m \in Managers |-> EmptyRec]
    /\ ks_n = [m \in Managers |-> 0]
    /\ ks_i = [m \in Managers |-> 0]
    /\ pages = [m \in Managers |-> 0]
    /\ tr_rec = [m \in Managers |-> EmptyRec]
    /\ tr_out = [m \in Managers |-> EmptyRec]
    /\ tr_pos = [m \in Managers |-> 0]
    /\ todo = [m \in Managers |-> [p \in Phases |-> {}]]
    /\ ret = None
    /\ sent = [m \in Managers |-> [h \in Methods |-> EmptyRec]]
    /\ last_req = NoReq
    /\ loads = [m \in Managers |-> [ks |-> 0, apps |-> 0]]
    /\ view = [m \in Managers |-> [p \in Phases |-> NoView]]
    /\ done = [m \in Managers |-> [op \in Operations |-> FALSE]]
    /\ created = [m \in Managers |-> EmptyRec]
    /\ lookup = NoLookup
    /\ accepted = [m \in Managers |-> {}]
    /\ error = NoError
    /\ url_map = [m \in Managers |-> "unset"]
    /\ url_i = 0
    /\ last_get = NoGet
    /\ failed = FALSE
    /\ tr_hist = [m \in Managers |-> << >>]
    /\ dropped = [m \in Managers |-> {}]

\* one run: nothing is recorded of the export files and of the remote
InitOnce == pass = 0 /\ export = NoExport /\ remote = NoRemote

Init == InitRun /\ InitOnce /\ su = NoSu /\ sp = NoSp

-----------------------------------------------------------------------------
(* Two runs against one remote that answers every request with success and  *)
(* stores what it is sent (pass = 1, 2).  In the single run (pass = 0) the   *)
(* remote answers anything.                                                 *)

RECURSIVE Sub(_, _, _)
\* the members of list L at the positions S, in order
Sub(L, S, i) ==
    IF i > Len(L) THEN << >>
    ELSE IF i \in S THEN <<L[i]>> \o Sub(L, S, i + 1) ELSE Sub(L, S, i + 1)

Subsequences(L) == {Sub(L, S, 1) : S \in SUBSET DOMAIN L}

RECURSIVE SeqOf(_)
\* the records of a collection, as the one page that lists them
SeqOf(data) ==
    IF DOMAIN data = {} THEN << >>
    ELSE LET k == CHOOSE x \in DOMAIN data : TRUE
         IN  <<data[k]>> \o SeqOf([x \in DOMAIN data \ {k} |-> data[x]])

\* the collections the remote can hold before the first run, every record
\* with its key and all its fields
FaithfulCollections(m) ==
    CASE m = "courses" ->
            Subsequences(<< [number |-> "C1", course_name |-> "x", url |-> Url(m, "C1", "old")],
                            [number |-> "C2", course_name |-> "x", url |-> Url(m, "C2", "old")] >>)
      [] m = "sections" ->
            Subsequences(<< [academic_year |-> YearUrl, course |-> Url("courses", "C1", "old"),
                             csn |-> "1", url |-> Url(m, <<YearUrl, "1">>, "old")],
                            [academic_year |-> YearUrl, course |-> Url("courses", "C1", "old"),
                             csn |-> "2", url |-> Url(m, <<YearUrl, "2">>, "old")] >>)
      [] m = "academic_years" ->
            Subsequences(<< [year |-> "2024", url |-> YearUrl] >>)

\* the records the export files of the two runs are made of
FaithfulRawRecords(m) ==
    CASE m = "courses" ->
            {[CourseNumber |-> n, CourseName |-> "x"] : n \in {"C1", "C2 "}}
      [] m = "sections" ->
            {[AcademicYear |-> "2024", CourseNumber |-> c, CourseSectionNumber |-> s] :
                c \in {"C1", "C2 "}, s \in {"1", "2"}}
      [] OTHER -> {}

\* json.load: the number of records of the export file
ExportLengths(m) == IF pass = 2 THEN {Len(export[m])} ELSE 0..MaxRecords

\* the next record of the export file: the second run reads the file the first read
NextRecords(m) ==
    CASE pass = 0 -> RawRecords(m)
      [] pass = 1 -> FaithfulRawRecords(m)
      [] pass = 2 -> {export[m][ks_i[m] + 1]}

\* the status of the answer to a DELETE or a PUT
Answers == IF pass = 0 THEN Statuses ELSE {"2xx"}

\* the answer to a POST
CreateAnswers(m) ==
    IF pass = 0 THEN CreateResponses(m)
    ELSE {[status |-> "2xx", body |-> "record", attrs |-> {}]}

\* the remote's collection of manager m after it stored a record, removed one
Holding(m, key, record) ==
    IF pass = 0 THEN remote ELSE [remote EXCEPT ![m].data = Put(@, key, record)]
Without(m, key) ==
    IF pass = 0 THEN remote
    ELSE [remote EXCEPT ![m].data = [k \in DOMAIN @ \ {key} |-> @[k]]]

-----------------------------------------------------------------------------
(* The call stack, exceptions and run_once *)

Frame(op, m, pc, key) == [op |-> op, m |-> m, pc |-> pc, key |-> key]

Top == stack[Len(stack)]
At(op, pc) == exit_code = -1 /\ stack # << >> /\ Top.op = op /\ Top.pc = pc

SetPc(pc) == [stack EXCEPT ![Len(stack)].pc = pc]
Popped == SubSeq(stack, 1, Len(stack) - 1)

\* the first label of each body
StartPc(op, m) ==
    CASE op = "sync"            -> "load_ks"
      [] op = "load_ks_data"    -> "open"
      [] op = "load_apps_data"  -> "url"
      [] op \in Phases          -> "load_apps"
      [] op = "translate"       -> "field"
      [] op = "get_url_for_key" -> IF m \in SyncManagers THEN "create" ELSE "load"

\* the run goes on with this stack
Continue(s) == stack' = s /\ exit_code' = exit_code /\ error' = error

\* main: "except Exception" logs the exception and returns 1
Fatal(exc) ==
    /\ stack' = << >>
    /\ exit_code' = 1
    /\ error' = [exc |-> exc, op |-> Top.op, m |-> Top.m]

\* frames of load_ks_data, whose try blocks catch InvalidRecord
Handlers == {j \in 1..Len(stack) : stack[j].op = "load_ks_data"}
Innermost(S) == CHOOSE j \in S : \A k \in S : k <= j

\* an exception raised in the top frame: an InvalidRecord unwinds to the
\* innermost load_ks_data, which logs it and goes on with the next record;
\* anything else, or an InvalidRecord outside every load_ks_data, reaches main
Raise(exc) ==
    IF exc \in InvalidRecord /\ Handlers # {}
    THEN Continue([SubSeq(stack, 1, Innermost(Handlers))
                      EXCEPT ![Innermost(Handlers)].pc = "record"])
    ELSE Fatal(exc)

run_once_ops_create_undecorated ==
    {"load_apps_data", "load_ks_data", "delete", "update"}

run_once_ops_load_undecorated == {"delete", "create", "update"}

\* the methods decorated with @run_once
run_once_ops == {"load_apps_data", "load_ks_data", "delete", "create", "update"}

\* run_once: the wrapped body is skipped when this instance already ran it
run_once_skips(m, op) == ran[m][op]

Skips(m, op) == op \in run_once_ops /\ run_once_skips(m, op)

\* the top frame calls op on manager m and resumes at pc
Call(op, m, pc) ==
    /\ Continue(IF Skips(m, op) THEN SetPc(pc)
                ELSE Append(SetPc(pc), Frame(op, m, StartPc(op, m), None)))
    /\ ran' = IF op \in run_once_ops THEN [ran EXCEPT ![m][op] = TRUE] ELSE ran
    /\ loads' = IF Skips(m, op) THEN loads
                ELSE IF op = "load_ks_data" THEN [loads EXCEPT ![m].ks = @ + 1]
                ELSE IF op = "load_apps_data" THEN [loads EXCEPT ![m].apps = @ + 1]
                ELSE loads

Quiet == last_req' = NoReq /\ lookup' = NoLookup /\ last_get' = NoGet

Inc(f, k) == IF k \in DOMAIN f THEN [f EXCEPT ![k] = @ + 1] ELSE Put(f, k, 1)

\* a mutating request is sent and answered with a status
Request(method, m, key, body, status) ==
    /\ sent' = [sent EXCEPT ![m][method] = Inc(@, key)]
    /\ last_req' = [method |-> method, m |-> m, key |-> key, body |-> body,
                    status |-> status]
    /\ last_get' = NoGet
    /\ failed' = (failed \/ status # "2xx")

dataVars == <<ks_data, apps_data>>
loadLocals == <<ks_n, ks_i, pages>>
trLocals == <<tr_rec, tr_out, tr_pos>>
histVars == <<sent, view, done, created, accepted>>
restVars == <<url_map, url_i, dropped, pass, su, sp>>

\* history of translate: the call for the record being read by manager m
\* returned out, or was left by the exception exc
Returned(m, out) ==
    [tr_hist EXCEPT ![m] = Append(@, [rec |-> tr_rec[m], exc |-> "", out |-> out])]
Aborted(m, exc) ==
    [tr_hist EXCEPT ![m] = Append(@, [rec |-> tr_rec[m], exc |-> exc, out |-> EmptyRec])]

-----------------------------------------------------------------------------
(* main and SyncManager.sync *)

\* main.sync: the next manager's .sync() is called
MainCallSync ==
    /\ exit_code = -1 /\ stack = << >> /\ main_i <= Len(SyncOrder)
    /\ Continue(<<Frame("sync", SyncOrder[main_i], StartPc("sync", SyncOrder[main_i]), None)>>)
    /\ main_i' = main_i + 1
    /\ Quiet
    /\ UNCHANGED <<ran, loads, dataVars, loadLocals, trLocals, todo, ret, histVars, failed, tr_hist, export, remote, restVars>>

\* main: sync(args) returned, "return 0"
MainReturn ==
    /\ exit_code = -1 /\ stack = << >> /\ main_i > Len(SyncOrder)
    /\ exit_code' = 0
    /\ Quiet
    /\ UNCHANGED <<stack, error, main_i, ran, loads, dataVars, loadLocals, trLocals,
                   todo, ret, histVars, failed, tr_hist, export, remote, restVars>>

\* SyncManager.sync: the calls of its body, in order
sync_calls == <<"load_ks_data", "load_apps_data", "delete", "create", "update">>
sync_pcs == <<"load_ks", "load_apps", "delete", "create", "update", "return">>
PcIndex(pc) == CHOOSE i \in 1..Len(sync_pcs) : sync_pcs[i] = pc

SyncStep ==
    /\ exit_code = -1 /\ stack # << >> /\ Top.op = "sync" /\ Top.pc # "return"
    /\ Call(sync_calls[PcIndex(Top.pc)], Top.m, sync_pcs[PcIndex(Top.pc) + 1])
    /\ Quiet
    /\ UNCHANGED <<main_i, dataVars, loadLocals, trLocals, todo, ret, histVars, failed, tr_hist, export, remote, restVars>>

SyncReturn ==
    /\ At("sync", "return")
    /\ Continue(Popped)
    /\ done' = [done EXCEPT ![Top.m]["sync"] = TRUE]
    /\ Quiet
    /\ UNCHANGED <<main_i, ran, loads, dataVars, loadLocals, trLocals, todo, ret,
                   sent, view, created, accepted, failed, tr_hist, export, remote, restVars>>

\* delete, create, update: self.load_apps_data(); self.load_ks_data()
PhaseLoad ==
    /\ exit_code = -1 /\ stack # << >> /\ Top.op \in Phases
    /\ Top.pc \in {"load_apps", "load_ks"}
    /\ IF Top.pc = "load_apps"
       THEN Call("load_apps_data", Top.m, "load_ks")
       ELSE Call("load_ks_data", Top.m, "compute")
    /\ Quiet
    /\ UNCHANGED <<main_i, dataVars, loadLocals, trLocals, todo, ret, histVars, failed, tr_hist, export, remote, restVars>>

-----------------------------------------------------------------------------
(* AppsManager.url and AppsManager.get_url_map *)

\* "for i in range(10)"
MaxAttempts == 10
\* "time.sleep(5)"
RetryDelay == 5

\* what one GET of api_root can end in: no connection, or a response with a
\* status and a body that is the JSON map of the collections or no JSON
GetOutcomes ==
    {[status |-> "ConnectionError", body |-> "text"]}
    \cup {[status |-> st, body |-> b] : st \in Statuses, b \in {"map", "text"}}

\* the remote of the two runs always answers with the map
Outcomes ==
    IF pass = 0 THEN GetOutcomes ELSE {[status |-> "2xx", body |-> "map"]}

retry_on_any_error(o) == o.status \notin {"2xx", "3xx"}

\* "except requests.ConnectionError": the only outcome the loop goes on after
retry_on(o) == o.status = "ConnectionError"

\* the exception an attempt that is not retried raises, "" when it returns
get_raises(o) ==
    IF raise_for_status(o.status) THEN "HTTPError"
    ELSE IF o.status = "ConnectionError" THEN "ConnectionError"
    ELSE IF o.body = "text" THEN "JSONDecodeError" ELSE ""

\* "url = self.url", first statement of load_apps_data: the map @cache holds
\* for this instance, or one iteration of the loop of get_url_map
GetUrlMap ==
    /\ At("load_apps_data", "url")
    /\ IF url_map[Top.m] = "map"
       THEN /\ Continue(SetPc("page"))
            /\ last_get' = NoGet
            /\ UNCHANGED <<url_map, url_i, failed>>
       ELSE /\ url_i < MaxAttempts
            /\ \E o \in Outcomes :
                 /\ last_get' = [m |-> Top.m, attempt |-> url_i + 1, outcome |-> o.status,
                                 slept |-> IF retry_on(o) THEN RetryDelay ELSE 0]
                 /\ failed' = (failed \/ o.status # "2xx")
                 /\ IF retry_on(o)
                    THEN /\ Continue(stack)
                         /\ url_i' = url_i + 1
                         /\ url_map' = url_map
                    ELSE IF get_raises(o) # ""
                    THEN /\ Fatal(get_raises(o))
                         /\ url_i' = 0
                         /\ url_map' = url_map
                    ELSE /\ Continue(SetPc("page"))
                         /\ url_i' = 0
                         /\ url_map' = [url_map EXCEPT ![Top.m] = "map"]
    /\ last_req' = NoReq /\ lookup' = NoLookup
    /\ UNCHANGED <<main_i, ran, loads, dataVars, loadLocals, trLocals, todo, ret,
                   histVars, tr_hist, dropped, pass, export, remote, su, sp>>

\* the loop of get_url_map ended without a return: the function returns None,
\* @cache keeps it, and the url property's None[self.url_key] raises TypeError
GetUrlMapNone ==
    /\ At("load_apps_data", "url")
    /\ url_map[Top.m] = "unset" /\ url_i = MaxAttempts
    /\ url_map' = [url_map EXCEPT ![Top.m] = "None"]
    /\ url_i' = 0
    /\ Fatal("TypeError")
    /\ Quiet
    /\ UNCHANGED <<main_i, ran, loads, dataVars, loadLocals, trLocals, todo, ret,
                   histVars, failed, tr_hist, dropped, pass, export, remote, su, sp>>

-----------------------------------------------------------------------------
(* AppsManager.load_apps_data *)

RECURSIVE store_results(_, _, _, _)
\* the for loop over data["results"]: the mapping built, and the exception
\* get_key_value raised, if any
store_results(m, data, results, i) ==
    IF i > Len(results) THEN [exc |-> "", data |-> data]
    ELSE IF get_key_value(m, results[i])[1] # ""
         THEN [exc |-> get_key_value(m, results[i])[1], data |-> data]
         ELSE store_results(m, Put(data, get_key_value(m, results[i])[2], results[i]),
                            results, i + 1)

\* what a GET of a page can answer: a page (with or without a next link), or
\* a body that is no page
PageResponses(m) ==
    {[ok |-> TRUE, results |-> r, next |-> n] :
        r \in PageResults(m),
        n \in IF pages[m] + 1 < MaxPages THEN BOOLEAN ELSE {FALSE}}
    \cup {[ok |-> FALSE, results |-> << >>, next |-> FALSE]}

\* the pages of the two runs: the whole collection the remote holds, in one page
Pages(m) ==
    IF pass = 0 THEN PageResponses(m)
    ELSE {[ok |-> TRUE, results |-> r, next |-> FALSE] :
            r \in IF remote[m].known THEN {SeqOf(remote[m].data)}
                  ELSE FaithfulCollections(m)}

\* one iteration of "while url"
LoadAppsPage ==
    /\ At("load_apps_data", "page")
    /\ \E resp \in Pages(Top.m) :
         LET m == Top.m
             got == store_results(m, apps_data[m], resp.results, 1)
         IN  /\ apps_data' = [apps_data EXCEPT ![m] = got.data]
             /\ failed' = (failed \/ ~resp.ok)
             /\ remote' = IF pass = 1 /\ ~remote[m].known
                          THEN [remote EXCEPT ![m] = [known |-> TRUE, data |-> got.data]]
                          ELSE remote
             /\ tr_hist' = IF resp.ok /\ got.exc \in InvalidRecord /\ Handlers # {}
                           THEN Aborted(stack[Innermost(Handlers)].m, got.exc)
                           ELSE tr_hist
             /\ IF ~resp.ok THEN Fatal("BadResponse") /\ UNCHANGED <<pages, done>>
                ELSE IF got.exc # "" THEN Raise(got.exc) /\ UNCHANGED <<pages, done>>
                ELSE IF resp.next
                THEN /\ Continue(stack)
                     /\ pages' = [pages EXCEPT ![m] = @ + 1]
                     /\ done' = done
                ELSE /\ Continue(Popped)
                     /\ pages' = [pages EXCEPT ![m] = 0]
                     /\ done' = [done EXCEPT ![m]["load_apps_data"] = TRUE]
    /\ Quiet
    /\ UNCHANGED <<main_i, ran, loads, ks_data, ks_n, ks_i, trLocals, todo, ret,
                   sent, view, created, accepted, export, restVars>>

-----------------------------------------------------------------------------
(* SyncManager.load_ks_data, split and translate *)

\* json.load(f_in): the export file is read, it holds some number of records
LoadKsOpen ==
    /\ At("load_ks_data", "open")
    /\ \E n \in ExportLengths(Top.m) :
         /\ ks_n' = [ks_n EXCEPT ![Top.m] = n]
         /\ ks_i' = [ks_i EXCEPT ![Top.m] = 0]
    /\ Continue(SetPc("record"))
    /\ Quiet
    /\ UNCHANGED <<main_i, ran, loads, dataVars, pages, trLocals, todo, ret,
                   histVars, failed, tr_hist, export, remote, restVars>>

\* the next record of the file: split(record) yields self.translate(record)
LoadKsRecord ==
    /\ At("load_ks_data", "record")
    /\ ks_i[Top.m] < ks_n[Top.m]
    /\ \E rec \in NextRecords(Top.m) :
         /\ tr_rec' = [tr_rec EXCEPT ![Top.m] = rec]
         /\ export' = IF pass = 1 THEN [export EXCEPT ![Top.m] = Append(@, rec)]
                      ELSE export
    /\ tr_out' = [tr_out EXCEPT ![Top.m] = EmptyRec]
    /\ tr_pos' = [tr_pos EXCEPT ![Top.m] = 1]
    /\ ks_i' = [ks_i EXCEPT ![Top.m] = @ + 1]
    /\ Continue(Append(SetPc("key"),
                       Frame("translate", Top.m, StartPc("translate", Top.m), None)))
    /\ Quiet
    /\ UNCHANGED <<main_i, ran, loads, dataVars, ks_n, pages, todo, ret, histVars,
                   failed, tr_hist, remote, restVars>>

\* the sub-record translate returned: key = self.get_key_value(translated);
\* self.ks_data[key] = translated, or the inner "except InvalidRecord"
LoadKsKey ==
    /\ At("load_ks_data", "key")
    /\ LET m == Top.m
           translated == tr_out[m]
           kv == get_key_value(m, translated)
       IN  /\ IF kv[1] = ""
              THEN /\ Continue(SetPc("record"))
                   /\ ks_data' = [ks_data EXCEPT ![m] = Put(@, kv[2], translated)]
                   /\ accepted' = [accepted EXCEPT ![m] = @ \cup {translated}]
              ELSE /\ Raise(kv[1])
                   /\ UNCHANGED <<ks_data, accepted>>
           /\ tr_out' = [tr_out EXCEPT ![m] = EmptyRec]
    /\ Quiet
    /\ UNCHANGED <<main_i, ran, loads, apps_data, loadLocals, tr_rec, tr_pos, todo,
                   ret, sent, view, done, created, failed, tr_hist, export, remote, restVars>>

\* the records of the file are exhausted
LoadKsReturn ==
    /\ At("load_ks_data", "record")
    /\ ks_i[Top.m] = ks_n[Top.m]
    /\ Continue(Popped)
    /\ done' = [done EXCEPT ![Top.m]["load_ks_data"] = TRUE]
    /\ ks_n' = [ks_n EXCEPT ![Top.m] = 0]
    /\ ks_i' = [ks_i EXCEPT ![Top.m] = 0]
    /\ tr_rec' = [tr_rec EXCEPT ![Top.m] = EmptyRec]
    /\ tr_out' = [tr_out EXCEPT ![Top.m] = EmptyRec]
    /\ tr_pos' = [tr_pos EXCEPT ![Top.m] = 0]
    /\ tr_hist' = [tr_hist EXCEPT ![Top.m] = << >>]
    /\ Quiet
    /\ UNCHANGED <<main_i, ran, loads, dataVars, pages, todo, ret,
                   sent, view, created, accepted, failed, export, remote, restVars>>

\* translate, one (apps_attr, ks_attr) pair of field_map: val = ks_record[ks_attr],
\* stripped; a field with a translation calls the upstream get_url_for_key
TranslateField ==
    /\ At("translate", "field")
    /\ tr_pos[Top.m] <= Len(field_map(Top.m))
    /\ LET m == Top.m
           apps_attr == field_map(m)[tr_pos[m]][1]
           ks_attr == field_map(m)[tr_pos[m]][2]
       IN  IF ks_attr \notin DOMAIN tr_rec[m]
           THEN Fatal("KeyError") /\ UNCHANGED <<tr_out, tr_pos>>
           ELSE IF apps_attr \in DOMAIN field_translations(m)
           THEN /\ Continue(Append(SetPc("assign"),
                        Frame("get_url_for_key", field_translations(m)[apps_attr],
                              StartPc("get_url_for_key", field_translations(m)[apps_attr]),
                              Strip(tr_rec[m][ks_attr]))))
                /\ UNCHANGED <<tr_out, tr_pos>>
           ELSE /\ Continue(stack)
                /\ tr_out' = [tr_out EXCEPT ![m] = Put(@, apps_attr, Strip(tr_rec[m][ks_attr]))]
                /\ tr_pos' = [tr_pos EXCEPT ![m] = @ + 1]
    /\ Quiet
    /\ UNCHANGED <<main_i, ran, loads, dataVars, loadLocals, tr_rec, todo, ret,
                   histVars, failed, tr_hist, export, remote, restVars>>

\* out[apps_attr] = the value the translation returned
TranslateAssign ==
    /\ At("translate", "assign")
    /\ tr_out' = [tr_out EXCEPT ![Top.m] = Put(@, field_map(Top.m)[tr_pos[Top.m]][1], ret)]
    /\ tr_pos' = [tr_pos EXCEPT ![Top.m] = @ + 1]
    /\ ret' = None
    /\ Continue(SetPc("field"))
    /\ Quiet
    /\ UNCHANGED <<main_i, ran, loads, dataVars, loadLocals, tr_rec, todo,
                   histVars, failed, tr_hist, export, remote, restVars>>

\* the loop over required_fields
missing_required(m, out) ==
    \E i \in 1..Len(required_fields(m)) :
        \/ required_fields(m)[i] \notin DOMAIN out
        \/ Falsy(out[required_fields(m)[i]])

\* the key of a record the required-field loop rejects, when the fields the
\* key is made of are all there and not empty
rejected_key(m, out) ==
    IF get_key_value(m, out)[1] # "" THEN {}
    ELSE IF m = "sections" /\ (Falsy(out["academic_year"]) \/ Falsy(out["csn"]))
    THEN {}
    ELSE {get_key_value(m, out)[2]}

\* translate, after the field loop: MissingRequiredValue or "return out"
TranslateReturn ==
    /\ At("translate", "field")
    /\ tr_pos[Top.m] > Len(field_map(Top.m))
    /\ IF missing_required(Top.m, tr_out[Top.m])
       THEN Raise("MissingRequiredValue")
       ELSE Continue(Popped)
    /\ tr_rec' = [tr_rec EXCEPT ![Top.m] = EmptyRec]
    /\ tr_pos' = [tr_pos EXCEPT ![Top.m] = 0]
    /\ tr_out' = IF missing_required(Top.m, tr_out[Top.m])
                 THEN [tr_out EXCEPT ![Top.m] = EmptyRec] ELSE tr_out
    /\ tr_hist' = IF missing_required(Top.m, tr_out[Top.m])
                  THEN Aborted(Top.m, "MissingRequiredValue")
                  ELSE Returned(Top.m, tr_out[Top.m])
    /\ dropped' = IF missing_required(Top.m, tr_out[Top.m])
                  THEN [dropped EXCEPT ![Top.m] = @ \cup rejected_key(Top.m, tr_out[Top.m])]
                  ELSE dropped
    /\ Quiet
    /\ UNCHANGED <<main_i, ran, loads, dataVars, loadLocals, todo, ret,
                   histVars, failed, url_map, url_i, pass, export, remote, su, sp>>

-----------------------------------------------------------------------------
(* get_url_for_key *)

\* AppsManager.get_url_for_key after its guards: the cached URL or None
cached_url(m, key) ==
    IF key \in DOMAIN apps_data[m] THEN apps_data[m][key]["url"] ELSE None

\* SyncManager.get_url_for_key: self.create()
SyncGetUrlCreate ==
    /\ At("get_url_for_key", "create")
    /\ Call("create", Top.m, "super")
    /\ Quiet
    /\ UNCHANGED <<main_i, dataVars, loadLocals, trLocals, todo, ret, histVars, failed, tr_hist, export, remote, restVars>>

\* AppsManager.get_url_for_key: "if not key: return None", else load_apps_data()
SyncGetUrlSuper ==
    /\ At("get_url_for_key", "super")
    /\ IF Falsy(Top.key)
       THEN /\ Continue(Popped)
            /\ ret' = None
            /\ lookup' = [m |-> Top.m, key |-> Top.key, ret |-> None]
            /\ UNCHANGED <<ran, loads>>
       ELSE /\ Call("load_apps_data", Top.m, "lookup")
            /\ UNCHANGED <<ret, lookup>>
    /\ last_req' = NoReq /\ last_get' = NoGet
    /\ UNCHANGED <<main_i, dataVars, loadLocals, trLocals, todo, histVars, failed, tr_hist, export, remote, restVars>>

\* AppsManager.get_url_for_key: the lookup in apps_data
SyncGetUrlLookup ==
    /\ At("get_url_for_key", "lookup")
    /\ Top.m \in SyncManagers
    /\ Continue(Popped)
    /\ ret' = cached_url(Top.m, Top.key)
    /\ lookup' = [m |-> Top.m, key |-> Top.key, ret |-> cached_url(Top.m, Top.key)]
    /\ last_req' = NoReq /\ last_get' = NoGet
    /\ UNCHANGED <<main_i, ran, loads, dataVars, loadLocals, trLocals, todo,
                   histVars, failed, tr_hist, export, remote, restVars>>

\* GetOrCreateManager.get_url_for_key: self.load_apps_data()
GocLoad ==
    /\ At("get_url_for_key", "load")
    /\ Call("load_apps_data", Top.m, "lookup")
    /\ Quiet
    /\ UNCHANGED <<main_i, dataVars, loadLocals, trLocals, todo, ret, histVars, failed, tr_hist, export, remote, restVars>>

\* GetOrCreateManager.get_url_for_key: no key, or a key already in apps_data
GocLookup ==
    /\ At("get_url_for_key", "lookup")
    /\ Top.m \in GetOrCreateManagers
    /\ Falsy(Top.key) \/ Top.key \in DOMAIN apps_data[Top.m]
    /\ Continue(Popped)
    /\ ret' = IF Falsy(Top.key) THEN None ELSE apps_data[Top.m][Top.key]["url"]
    /\ lookup' = [m |-> Top.m, key |-> Top.key,
                  ret |-> IF Falsy(Top.key) THEN None ELSE apps_data[Top.m][Top.key]["url"]]
    /\ last_req' = NoReq /\ last_get' = NoGet
    /\ UNCHANGED <<main_i, ran, loads, dataVars, loadLocals, trLocals, todo,
                   histVars, failed, tr_hist, export, remote, restVars>>

goc_stored_nothing(current, key, data) == current

\* self.apps_data[key] = data
goc_stored(current, key, data) == Put(current, key, data)

\* the body of the POST of GetOrCreateManager.get_url_for_key
goc_body(m, key) == Put(EmptyRec, key_name(m), key)

\* GetOrCreateManager.get_url_for_key: "We didn't have it - create the record"
GocCreate ==
    /\ At("get_url_for_key", "lookup")
    /\ Top.m \in GetOrCreateManagers
    /\ ~Falsy(Top.key) /\ Top.key \notin DOMAIN apps_data[Top.m]
    /\ \E resp \in CreateAnswers(Top.m) :
         LET m == Top.m
             key == Top.key
             data == Put(goc_body(m, key), "url", Url(m, key, "new"))
         IN  /\ Request("POST", m, key, goc_body(m, key), resp.status)
             /\ IF raise_for_status(resp.status)
                THEN /\ Fatal("HTTPError")
                     /\ lookup' = NoLookup
                     /\ UNCHANGED <<apps_data, created, ret, remote>>
                ELSE IF resp.body = "text"
                THEN /\ Fatal("JSONDecodeError")
                     /\ lookup' = NoLookup
                     /\ UNCHANGED <<apps_data, created, ret, remote>>
                ELSE /\ Continue(Popped)
                     /\ remote' = Holding(m, key, data)
                     /\ apps_data' = [apps_data EXCEPT ![m] = goc_stored(@, key, data)]
                     /\ created' = [created EXCEPT ![m] = Put(@, key, data["url"])]
                     /\ ret' = data["url"]
                     /\ lookup' = [m |-> m, key |-> key, ret |-> data["url"]]
    /\ UNCHANGED <<main_i, ran, loads, ks_data, loadLocals, trLocals, todo,
                   view, done, accepted, tr_hist, export, restVars>>

-----------------------------------------------------------------------------
(* SyncManager.delete, create, update *)

to_delete(m) == DOMAIN apps_data[m] \ DOMAIN ks_data[m]

to_create_every_desired(m) == DOMAIN ks_data[m]

to_create(m) == DOMAIN ks_data[m] \ DOMAIN apps_data[m]

update_candidates(m) == DOMAIN ks_data[m] \cap DOMAIN apps_data[m]

to_update(m) ==
    {key \in update_candidates(m) :
        should_update(ks_data[m][key], apps_data[m][key], FieldOrder(m)) = "True"}

\* the phase's set as computed, next to the key sets it was computed from
Viewed(m, set) ==
    [at |-> TRUE, set |-> set, desired |-> DOMAIN ks_data[m],
     current |-> DOMAIN apps_data[m]]

\* the phase goes on with the members left, or returns when none is left
Advance(m, p, left) ==
    /\ todo' = [todo EXCEPT ![m][p] = left]
    /\ IF left = {}
       THEN Continue(Popped) /\ done' = [done EXCEPT ![m][p] = TRUE]
       ELSE Continue(SetPc("loop")) /\ done' = done

DeleteCompute ==
    /\ At("delete", "compute")
    /\ view' = [view EXCEPT ![Top.m]["delete"] = Viewed(Top.m, to_delete(Top.m))]
    /\ Advance(Top.m, "delete", to_delete(Top.m))
    /\ Quiet
    /\ UNCHANGED <<main_i, ran, loads, dataVars, loadLocals, trLocals, ret,
                   sent, created, accepted, failed, tr_hist, export, remote, restVars>>

\* one iteration of "for key in to_delete": self.session.delete(url)
DeleteRequest ==
    /\ At("delete", "loop")
    /\ \E key \in todo[Top.m]["delete"], status \in Answers :
         /\ Request("DELETE", Top.m, key, EmptyRec, status)
         /\ lookup' = NoLookup
         /\ remote' = IF status = "2xx" THEN Without(Top.m, key) ELSE remote
         /\ IF raise_for_status(status)
            THEN Fatal("HTTPError") /\ UNCHANGED <<todo, done>>
            ELSE Advance(Top.m, "delete", todo[Top.m]["delete"] \ {key})
    /\ UNCHANGED <<main_i, ran, loads, dataVars, loadLocals, trLocals, ret,
                   view, created, accepted, tr_hist, export, restVars>>

CreateCompute ==
    /\ At("create", "compute")
    /\ view' = [view EXCEPT ![Top.m]["create"] = Viewed(Top.m, to_create(Top.m))]
    /\ Advance(Top.m, "create", to_create(Top.m))
    /\ Quiet
    /\ UNCHANGED <<main_i, ran, loads, dataVars, loadLocals, trLocals, ret,
                   sent, created, accepted, failed, tr_hist, export, remote, restVars>>

\* the exception the body of the create loop raises on a response, "" when none
\* (the 4xx branch logs desired_record[attr] for every attribute that is not
\* a "detail" string, then continues)
create_raises(desired, resp) ==
    IF resp.body = "text" THEN "JSONDecodeError"
    ELSE IF resp.status = "4xx"
         THEN IF \E attr \in resp.attrs : attr # "detail" /\ attr \notin DOMAIN desired
              THEN "KeyError" ELSE ""
         ELSE IF raise_for_status(resp.status) THEN "HTTPError"
              ELSE IF resp.body # "record" THEN "KeyError" ELSE ""

create_stored_nothing(current, key, data) == current

\* self.apps_data[key] = data
create_stored(current, key, data) == Put(current, key, data)

\* one iteration of "for key in to_create": self.session.post(self.url, json=desired_record)
CreateRequest ==
    /\ At("create", "loop")
    /\ \E key \in todo[Top.m]["create"], resp \in CreateAnswers(Top.m) :
         LET m == Top.m
             desired == ks_data[m][key]
             data == Put(desired, "url", Url(m, key, "new"))
         IN  /\ Request("POST", m, key, desired, resp.status)
             /\ lookup' = NoLookup
             /\ IF create_raises(desired, resp) # ""
                THEN /\ Fatal(create_raises(desired, resp))
                     /\ UNCHANGED <<todo, done, apps_data, created, remote>>
                ELSE /\ Advance(m, "create", todo[m]["create"] \ {key})
                     /\ IF resp.status = "4xx"
                        THEN UNCHANGED <<apps_data, created, remote>>
                        ELSE /\ apps_data' = [apps_data EXCEPT ![m] = create_stored(@, key, data)]
                             /\ remote' = Holding(m, key, data)
                             /\ created' = [created EXCEPT ![m] = Put(@, key, data["url"])]
    /\ UNCHANGED <<main_i, ran, loads, ks_data, loadLocals, trLocals, ret,
                   view, accepted, tr_hist, export, restVars>>

\* the loop over update_candidates raises KeyError when should_update does
UpdateCompute ==
    /\ At("update", "compute")
    /\ IF \E key \in update_candidates(Top.m) :
            should_update(ks_data[Top.m][key], apps_data[Top.m][key],
                          FieldOrder(Top.m)) = "KeyError"
       THEN Fatal("KeyError") /\ UNCHANGED <<view, todo, done>>
       ELSE /\ view' = [view EXCEPT ![Top.m]["update"] = Viewed(Top.m, to_update(Top.m))]
            /\ Advance(Top.m, "update", to_update(Top.m))
    /\ Quiet
    /\ UNCHANGED <<main_i, ran, loads, dataVars, loadLocals, trLocals, ret,
                   sent, created, accepted, failed, tr_hist, export, remote, restVars>>

\* one iteration of "for key in to_update": self.session.put(url, json=desired_record)
UpdateRequest ==
    /\ At("update", "loop")
    /\ \E key \in todo[Top.m]["update"], status \in Answers :
         /\ Request("PUT", Top.m, key, ks_data[Top.m][key], status)
         /\ lookup' = NoLookup
         /\ remote' = IF status = "2xx"
                      THEN Holding(Top.m, key, Put(ks_data[Top.m][key], "url",
                                                   apps_data[Top.m][key]["url"]))
                      ELSE remote
         /\ IF raise_for_status(status)
            THEN Fatal("HTTPError") /\ UNCHANGED <<todo, done>>
            ELSE Advance(Top.m, "update", todo[Top.m]["update"] \ {key})
    /\ UNCHANGED <<main_i, ran, loads, dataVars, loadLocals, trLocals, ret,
                   view, created, accepted, tr_hist, export, restVars>>

-----------------------------------------------------------------------------
(* The run *)

Next ==
    \/ MainCallSync \/ MainReturn \/ SyncStep \/ SyncReturn \/ PhaseLoad
    \/ GetUrlMap \/ GetUrlMapNone \/ LoadAppsPage
    \/ LoadKsOpen \/ LoadKsRecord \/ LoadKsKey \/ LoadKsReturn
    \/ TranslateField \/ TranslateAssign \/ TranslateReturn
    \/ SyncGetUrlCreate \/ SyncGetUrlSuper \/ SyncGetUrlLookup
    \/ GocLoad \/ GocLookup \/ GocCreate
    \/ DeleteCompute \/ DeleteRequest \/ CreateCompute \/ CreateRequest
    \/ UpdateCompute \/ UpdateRequest

Spec == Init /\ [][Next]_vars

-----------------------------------------------------------------------------
(* The run, twice: the second process starts with fresh manager instances,  *)
(* the export files unchanged and the remote as the first run left it       *)

InitTwice ==
    /\ InitRun
    /\ pass = 1 /\ export = NoExport /\ remote = NoRemote
    /\ su = NoSu /\ sp = NoSp

\* the first process returned 0; main of the second process starts
SecondPass ==
    /\ pass = 1 /\ exit_code = 0 /\ ~failed
    /\ pass' = 2
    /\ stack' = << >>
    /\ main_i' = 1
    /\ exit_code' = -1
    /\ ran' = [m \in Managers |-> [op \in Operations |-> FALSE]]
    /\ ks_data' = [m \in Managers |-> EmptyRec]
    /\ apps_data' = [m \in Managers |-> EmptyRec]
    /\ todo' = [m \in Managers |-> [p \in Phases |-> {}]]
    /\ ret' = None
    /\ sent' = [m \in Managers |-> [h \in Methods |-> EmptyRec]]
    /\ loads' = [m \in Managers |-> [ks |-> 0, apps |-> 0]]
    /\ view' = [m \in Managers |-> [p \in Phases |-> NoView]]
    /\ done' = [m \in Managers |-> [op \in Operations |-> FALSE]]
    /\ created' = [m \in Managers |-> EmptyRec]
    /\ accepted' = [m \in Managers |-> {}]
    /\ url_map' = [m \in Managers |-> "unset"]
    /\ dropped' = [m \in Managers |-> {}]
    /\ Quiet
    /\ UNCHANGED <<loadLocals, trLocals, error, url_i, failed, tr_hist, export,
                   remote, su, sp>>

NextTwice ==
    \/ MainCallSync \/ MainReturn \/ SyncStep \/ SyncReturn \/ PhaseLoad
    \/ GetUrlMap \/ LoadAppsPage
    \/ LoadKsOpen \/ LoadKsRecord \/ LoadKsKey \/ LoadKsReturn
    \/ TranslateField \/ TranslateAssign \/ TranslateReturn
    \/ SyncGetUrlCreate \/ SyncGetUrlSuper \/ SyncGetUrlLookup
    \/ GocLoad \/ GocLookup \/ GocCreate
    \/ DeleteCompute \/ DeleteRequest \/ CreateCompute \/ CreateRequest
    \/ UpdateCompute \/ UpdateRequest
    \/ SecondPass

SpecTwice == InitTwice /\ [][NextTwice]_vars

-----------------------------------------------------------------------------
(* should_update on its own: every pair of records over two fields, the     *)
(* current record possibly lacking fields of the desired one                *)

SuFields == {"a", "b"}
SuOrder == <<"a", "b">>
SuRecords == UNION {[fs -> {"x", "y"}] : fs \in SUBSET SuFields}

InitSU ==
    /\ InitRun /\ InitOnce
    /\ su \in {[desired |-> d, current |-> c, result |-> ""] :
                 d \in SuRecords, c \in SuRecords}
    /\ sp = NoSp

ShouldUpdateCall ==
    /\ su.result = ""
    /\ su' = [su EXCEPT !.result = should_update(su.desired, su.current, SuOrder)]
    /\ UNCHANGED <<stack, main_i, exit_code, ran, ks_data, apps_data, ks_n, ks_i,
                   pages, tr_rec, tr_out, tr_pos, todo, ret, sent, last_req, loads,
                   view, done, created, lookup, accepted, error, url_map, url_i,
                   last_get, failed, tr_hist, dropped, pass, export, remote, sp>>

NextSU == ShouldUpdateCall

SpecSU == InitSU /\ [][NextSU]_vars

-----------------------------------------------------------------------------
(* Properties *)

MethodOf(p) ==
    CASE p = "delete" -> "DELETE" [] p = "create" -> "POST" [] p = "update" -> "PUT"

\* C1: the set each phase computes, against the mappings as they stand when
\* the phase computes it: the create set shares no key with current, the
\* delete set shares no key with desired, the update set lies within the keys
\* of both.
C1_SetsPartition ==
    \A m \in SyncManagers :
        /\ view[m]["create"].set \cap view[m]["create"].current = {}
        /\ view[m]["delete"].set \cap view[m]["delete"].desired = {}
        /\ view[m]["update"].set \subseteq
               (view[m]["update"].desired \cap view[m]["update"].current)

C1_Witness ==
    /\ \E m \in SyncManagers : view[m]["delete"].set # {}
    /\ \E m \in SyncManagers : view[m]["create"].set # {}
    /\ \E m \in SyncManagers : view[m]["update"].set # {}

\* C2: should_update returns a boolean for every pair of records, true
\* exactly when some field of desired has a different value in current.
C2_ShouldUpdateIsBoolean ==
    su.result # "" =>
        /\ su.result \in {"True", "False"}
        /\ su.result = "True" <=>
              \E f \in DOMAIN su.desired :
                  f \notin DOMAIN su.current \/ su.current[f] # su.desired[f]

\* C3: a create answered 4xx does not fail the create phase, whatever its
\* error body names: the run goes on and the key stays out of current.
C3_Create4xxNeverFails ==
    (last_req.method = "POST" /\ last_req.m \in SyncManagers /\ last_req.status = "4xx")
        => /\ exit_code = -1
           /\ last_req.key \notin DOMAIN apps_data[last_req.m]

\* C4: a non-2xx answer to a delete or an update, or a non-2xx non-4xx answer
\* to a create, ends the run with exit code 1; exit code 0 only when every
\* entity's sync ran to its end.
C4_NonSuccessIsFatal ==
    /\ (last_req.m \in SyncManagers /\ last_req.status # "2xx"
          /\ (last_req.method \in {"DELETE", "PUT"} \/ last_req.status # "4xx"))
         => (exit_code = 1 /\ stack = << >>)
    /\ exit_code = 0 => \A m \in SyncManagers : done[m]["sync"]

\* C5: per entity every delete request precedes every create request and
\* every create request every update request; an entity has finished its sync
\* before a later entity of main's order sends a request; no create phase
\* starts before the same entity's delete phase has ended.
C5_PhaseOrder ==
    /\ \A m \in SyncManagers :
          /\ DOMAIN sent[m]["POST"] # {} => done[m]["delete"]
          /\ DOMAIN sent[m]["PUT"] # {} => done[m]["delete"] /\ done[m]["create"]
          /\ ran[m]["create"] => done[m]["delete"]
    /\ \A i, j \in 1..Len(SyncOrder) :
          (i < j /\ \E h \in Methods : DOMAIN sent[SyncOrder[j]][h] # {})
              => done[SyncOrder[i]]["sync"]

C5_Witness ==
    /\ DOMAIN sent["courses"]["DELETE"] # {}
    /\ DOMAIN sent["courses"]["POST"] # {}
    /\ DOMAIN sent["sections"]["DELETE"] # {}
    /\ DOMAIN sent["sections"]["PUT"] # {}

\* C6: when a lookup of an upstream SyncManager returns, that manager's create
\* phase has ended, and a key this pass created resolves to the URL that
\* create stored, not to None.
C6_LookupSeesCreated ==
    lookup.m \in SyncManagers =>
        /\ done[lookup.m]["create"]
        /\ lookup.key \in DOMAIN created[lookup.m] =>
              (lookup.ret = created[lookup.m][lookup.key] /\ lookup.ret # None)

C6_Witness ==
    /\ lookup.m = "courses"
    /\ lookup.key \in DOMAIN created["courses"]
    /\ lookup.ret = Url("courses", lookup.key, "new")

\* C7: however often create() and get_url_for_key() are invoked, no member of
\* a phase's set is sent twice, no request is sent for a non-member, and in a
\* run that ends without a fatal error every member of every set was sent
\* exactly once.
C7_VisitedOnce ==
    /\ \A m \in SyncManagers, p \in Phases :
          /\ DOMAIN sent[m][MethodOf(p)] \subseteq view[m][p].set
          /\ \A k \in DOMAIN sent[m][MethodOf(p)] : sent[m][MethodOf(p)][k] = 1
    /\ exit_code = 0 =>
          \A m \in SyncManagers, p \in Phases :
              view[m][p].at /\ DOMAIN sent[m][MethodOf(p)] = view[m][p].set

C7_Witness ==
    /\ exit_code = 0
    /\ view["courses"]["create"].set # {}
    /\ Cardinality(DOMAIN ks_data["sections"]) >= 2

\* C8: per manager instance the export is read at most once and the remote
\* collection paginated at most once, and each instance that needs its
\* mappings did load them itself.
C8_LoadedOnce ==
    /\ \A m \in Managers : loads[m].ks <= 1 /\ loads[m].apps <= 1
    /\ \A m \in SyncManagers :
          view[m]["delete"].at => loads[m].ks = 1 /\ loads[m].apps = 1
    /\ lookup.m \in GetOrCreateManagers => loads[lookup.m].apps = 1

C8_Witness ==
    /\ exit_code = 0
    /\ \A m \in Managers : loads[m].apps = 1
    /\ \A m \in SyncManagers : loads[m].ks = 1
    /\ Cardinality(DOMAIN ks_data["sections"]) >= 2

C9_State ==
    /\ \A m \in GetOrCreateManagers :
          \A k \in DOMAIN sent[m]["POST"] : sent[m]["POST"][k] = 1
    /\ last_req.m \in GetOrCreateManagers =>
          /\ last_req.method = "POST"
          /\ last_req.body = [f \in {key_name(last_req.m)} |-> last_req.key]
    /\ lookup.m \in GetOrCreateManagers =>
          IF Falsy(lookup.key)
          THEN lookup.ret = None /\ last_req.method = ""
          ELSE /\ lookup.key \in DOMAIN apps_data[lookup.m]
               /\ lookup.ret = apps_data[lookup.m][lookup.key]["url"]
               /\ lookup.ret # None

C9_Step ==
    \A m \in GetOrCreateManagers :
        /\ sent'[m] # sent[m] =>
              (~Falsy(Top.key) /\ Top.key \notin DOMAIN apps_data[m])
        /\ (lookup'.m = m /\ ~Falsy(lookup'.key) /\ lookup'.key \in DOMAIN apps_data[m])
              => (sent' = sent /\ lookup'.ret = apps_data[m][lookup'.key]["url"])

\* C9: a reference entity's get_url_for_key returns None without a request
\* for a null or empty key, the cached URL without a request for a key of the
\* mapping, and for any other key sends one POST whose body is the key field
\* alone, stores the answer and returns its URL; no key is POSTed twice.
C9_GetOrCreate == []C9_State /\ [][C9_Step]_vars

C9_Witness ==
    /\ lookup.m = "academic_years"
    /\ last_req.method = ""
    /\ lookup.key \in DOMAIN created["academic_years"]
    /\ lookup.ret = Url("academic_years", lookup.key, "new")

\* C10: load_ks_data runs to its end on every export: no exception of a
\* record's translation escapes it, and every sub-record that passed key
\* extraction is held by the desired mapping.
C10_LoadRunsToCompletion ==
    /\ error.op # "translate"
    /\ \A m \in SyncManagers :
          done[m]["load_ks_data"] =>
              \A r \in accepted[m] : get_key_value(m, r)[2] \in DOMAIN ks_data[m]

TargetFields(m) == {field_map(m)[j][1] : j \in 1..Len(field_map(m))}

\* C11: translate ends in an InvalidRecord error when a source field of the
\* field map is absent from the local record or a required field is absent
\* or empty after translation, and no other exception leaves it; when it
\* returns, the record holds exactly the target fields of the field map.
C11_TranslateContract ==
    /\ error.op = "translate" => error.exc \in InvalidRecord
    /\ \A m \in SyncManagers : \A i \in DOMAIN tr_hist[m] :
          tr_hist[m][i].exc = "" =>
              /\ DOMAIN tr_hist[m][i].out = TargetFields(m)
              /\ ~missing_required(m, tr_hist[m][i].out)

\* manager m's load_apps_data is on the call stack
Loading(m) ==
    \E j \in 1..Len(stack) : stack[j].op = "load_apps_data" /\ stack[j].m = m

\* C12: a remote record without the key field, or with an empty key value, is
\* skipped alone: no such record ends the run, and a pagination that was
\* begun and is no longer running has run to its last page.
C12_BadRemoteRecordSkipped ==
    /\ error.exc \notin {"MissingKey", "MissingKeyValue"}
    /\ \A m \in Managers :
          (exit_code = -1 /\ ran[m]["load_apps_data"] /\ ~Loading(m))
              => done[m]["load_apps_data"]

-----------------------------------------------------------------------------
(* ParentManager on its own: split of one family record of the export, and  *)
(* the loop of load_ks_data over the sub-records it yields.  subvalue_map   *)
(* keeps its first two entries.                                             *)

subvalue_map == << <<"first_name", "first">>, <<"last_name", "last">> >>

FamilyRecords ==
    {[IDFAMILY |-> f, Pa_first |-> af, Pa_last |-> al, Pb_first |-> bf,
      Pb_last |-> bl, P_address_full |-> "Main", P_phone_H |-> "555"] :
        f \in {"F1", ""}, af \in {"", " ", "Ann"}, al \in {"", "Lee"},
        bf \in {"", " ", "Bob"}, bl \in {"", "Lee"}}

RECURSIVE sub_values(_, _, _)
\* the loop over subvalue_map.items(): the stripped values that are not empty
sub_values(ks_record, prefix, i) ==
    IF i = 0 THEN EmptyRec
    ELSE IF Strip(ks_record[prefix \o "_" \o subvalue_map[i][2]]) # ""
         THEN Put(sub_values(ks_record, prefix, i - 1), subvalue_map[i][1],
                  Strip(ks_record[prefix \o "_" \o subvalue_map[i][2]]))
         ELSE sub_values(ks_record, prefix, i - 1)

\* "if out:" the record one prefix yields, or nothing
parent_records(ks_record, prefix) ==
    LET out == sub_values(ks_record, prefix, Len(subvalue_map))
    IN  IF out = EmptyRec THEN << >>
        ELSE << Put(Put(Put(Put(out, "family_id", ks_record["IDFAMILY"]),
                            "address", Strip(ks_record["P_address_full"])),
                        "phone_home", Strip(ks_record["P_phone_H"])),
                    "parent_id", prefix) >>

\* the synthetic Pa record
synthetic_record(ks_record) ==
    [family_id |-> ks_record["IDFAMILY"], parent_id |-> "Pa",
     address |-> Strip(ks_record["P_address_full"]),
     phone_home |-> Strip(ks_record["P_phone_H"])]

\* "did_create = False", never assigned again
did_create(ks_record) == FALSE

\* ParentManager.split: the sub-records in the order they are yielded
split(ks_record) ==
    parent_records(ks_record, "Pa") \o parent_records(ks_record, "Pb")
    \o (IF ~did_create(ks_record) THEN <<synthetic_record(ks_record)>> ELSE << >>)

\* ParentManager.get_key_value
parent_get_key_value(record) == <<record["family_id"], record["parent_id"]>>

runVars == <<stack, main_i, exit_code, ran, ks_data, apps_data, ks_n, ks_i, pages,
             tr_rec, tr_out, tr_pos, todo, ret, sent, last_req, loads, view, done,
             created, lookup, accepted, error, url_map, url_i, last_get, failed,
             tr_hist, dropped, pass, export, remote>>

InitParents ==
    /\ InitRun /\ InitOnce
    /\ su = NoSu
    /\ sp \in {[record |-> r, pc |-> "split", subs |-> << >>, i |-> 0,
                ks_data |-> EmptyRec] : r \in FamilyRecords}

\* load_ks_data: self.split(record)
ParentSplit ==
    /\ sp.pc = "split"
    /\ sp' = [sp EXCEPT !.subs = split(sp.record), !.pc = "key"]
    /\ UNCHANGED <<runVars, su>>

\* load_ks_data: key = self.get_key_value(translated); self.ks_data[key] = translated
ParentLoadKey ==
    /\ sp.pc = "key"
    /\ sp.i < Len(sp.subs)
    /\ sp' = [sp EXCEPT !.i = @ + 1,
                        !.ks_data = Put(@, parent_get_key_value(sp.subs[sp.i + 1]),
                                        sp.subs[sp.i + 1])]
    /\ UNCHANGED <<runVars, su>>

NextParents == ParentSplit \/ ParentLoadKey

SpecParents == InitParents /\ [][NextParents]_vars

\* some field of the prefix is populated in the family record being split
PopulatedIn(prefix) ==
    \E j \in 1..Len(subvalue_map) :
        Strip(sp.record[prefix \o "_" \o subvalue_map[j][2]]) # ""

SubKeys == [j \in DOMAIN sp.subs |-> parent_get_key_value(sp.subs[j])]

\* C13: split yields one sub-record keyed (family, "Pa") when only Pa fields
\* are populated, two keyed (family, "Pa") and (family, "Pb") when both
\* prefixes are, and one synthetic minimal Pa record when neither is.
C13_ParentSplit ==
    sp.pc = "key" =>
        /\ (PopulatedIn("Pa") /\ ~PopulatedIn("Pb"))
              => SubKeys = << <<sp.record["IDFAMILY"], "Pa">> >>
        /\ (PopulatedIn("Pa") /\ PopulatedIn("Pb"))
              => SubKeys = << <<sp.record["IDFAMILY"], "Pa">>,
                              <<sp.record["IDFAMILY"], "Pb">> >>
        /\ (~PopulatedIn("Pa") /\ ~PopulatedIn("Pb"))
              => sp.subs = <<synthetic_record(sp.record)>>

\* C14: every key of the desired mapping is present and non-null, and every
\* component of a composite key is non-null and non-empty.
C14_KeysPresent ==
    \A key \in DOMAIN sp.ks_data : ~Falsy(key[1]) /\ ~Falsy(key[2])

-----------------------------------------------------------------------------
(* Properties of the reconciliation, the discovery document and the         *)
(* in-memory mappings                                                       *)

\* requests of one method sent for a key
Count(m, method, key) ==
    IF key \in DOMAIN sent[m][method] THEN sent[m][method][key] ELSE 0

\* some field of the desired record has another value, or none, in current
Differs(desired, current) ==
    \E f \in DOMAIN desired : f \notin DOMAIN current \/ current[f] # desired[f]

\* the requests the pass of manager m sent for a key: creates, updates, deletes
Requests(m, key) ==
    <<Count(m, "POST", key), Count(m, "PUT", key), Count(m, "DELETE", key)>>

\* C15: in a pass all of whose requests were answered 2xx, a key only in the
\* desired mapping gets one create with the desired record as body and is in
\* the current mapping afterwards, a key only in the current mapping gets
\* one delete, a key in both gets one update with the desired record as body
\* when a desired field differs and no request otherwise.
C15_Reconciles ==
    /\ (last_req.m \in SyncManagers /\ last_req.method \in {"POST", "PUT"})
          => last_req.body = ks_data[last_req.m][last_req.key]
    /\ \A m \in SyncManagers :
          (~failed /\ view[m]["delete"].at /\ (done[m]["sync"] \/ exit_code = 1)) =>
              /\ \A key \in view[m]["delete"].desired \ view[m]["delete"].current :
                    /\ Requests(m, key) = <<1, 0, 0>>
                    /\ key \in DOMAIN apps_data[m]
              /\ \A key \in view[m]["delete"].current \ view[m]["delete"].desired :
                    Requests(m, key) = <<0, 0, 1>>
              /\ \A key \in view[m]["delete"].desired \cap view[m]["delete"].current :
                    Requests(m, key) =
                        IF Differs(ks_data[m][key], apps_data[m][key])
                        THEN <<0, 1, 0>> ELSE <<0, 0, 0>>

\* C16: the discovery document is fetched with success at most once in the
\* process: once some manager instance holds the map, no instance sends
\* another GET to the root URL.
C16_FetchedOnce ==
    /\ Cardinality({m \in Managers : url_map[m] = "map"}) <= 1
    /\ last_get.m # "" =>
          \A m \in Managers \ {last_get.m} : url_map[m] # "map"

C17_State ==
    /\ url_i \in 0..MaxAttempts
    /\ \A m \in Managers :
          url_map[m] = "None" => (exit_code = 1 /\ error.exc = "TypeError")
    /\ last_get.m # "" =>
          /\ last_get.attempt \in 1..MaxAttempts
          /\ IF last_get.outcome = "ConnectionError"
             THEN /\ At("load_apps_data", "url")
                  /\ url_i = last_get.attempt
                  /\ last_get.slept = RetryDelay
                  /\ url_map[last_get.m] = "unset"
             ELSE /\ url_i = 0
                  /\ last_get.slept = 0
                  /\ last_get.outcome \in {"4xx", "5xx"} =>
                        /\ exit_code = 1
                        /\ error.exc = "HTTPError"
                        /\ url_map[last_get.m] = "unset"

C17_Step ==
    /\ url_i' > url_i => (url_i' = url_i + 1 /\ last_get'.outcome = "ConnectionError")
    /\ url_i = MaxAttempts =>
          /\ exit_code' = 1
          /\ last_get'.m = ""
          /\ \A m \in Managers : url_map'[m] = "map" => url_map[m] = "map"

C18_TranslateIdempotent ==
    \A m \in SyncManagers : \A i, j \in DOMAIN tr_hist[m] :
        tr_hist[m][i].rec = tr_hist[m][j].rec => tr_hist[m][i] = tr_hist[m][j]

\* C19: after an update request for a key was answered with success, the
\* record the current mapping holds for the key agrees with the desired
\* record on every field of the desired record.
C19_UpdateMutatesCurrent ==
    (last_req.m \in SyncManagers /\ last_req.method = "PUT" /\ last_req.status = "2xx")
        => ~Differs(last_req.body, apps_data[last_req.m][last_req.key])

\* C20: after a delete request for a key was answered with success the
\* current mapping no longer holds the key, and no later lookup of the key
\* returns the URL of the deleted record.
C20_DeletedLeavesCurrent ==
    /\ (last_req.m \in SyncManagers /\ last_req.method = "DELETE"
          /\ last_req.status = "2xx")
          => last_req.key \notin DOMAIN apps_data[last_req.m]
    /\ (~failed /\ lookup.m \in SyncManagers
          /\ Count(lookup.m, "DELETE", lookup.key) > 0)
          => lookup.ret = None

\* C21: a delete request is sent for a remote record only when the export
\* holds no record of its key: the key of a local record that was dropped
\* while loading is never deleted.
C21_DeleteOnlyAbsent ==
    \A m \in SyncManagers : DOMAIN sent[m]["DELETE"] \cap dropped[m] = {}

\* C22: after a family record with populated Pa fields was loaded, the
\* desired mapping's record of key (family, "Pa") holds every populated Pa
\* field: no later sub-record of the same key, and never the synthetic
\* minimal record, has taken the populated record's place.
C22_PopulatedPaKept ==
    (sp.pc = "key" /\ sp.i = Len(sp.subs) /\ PopulatedIn("Pa")) =>
        /\ <<sp.record["IDFAMILY"], "Pa">> \in DOMAIN sp.ks_data
        /\ \A j \in 1..Len(subvalue_map) :
              Strip(sp.record["Pa_" \o subvalue_map[j][2]]) # "" =>
                  /\ subvalue_map[j][1] \in
                         DOMAIN sp.ks_data[<<sp.record["IDFAMILY"], "Pa">>]
                  /\ sp.ks_data[<<sp.record["IDFAMILY"], "Pa">>][subvalue_map[j][1]]
                         = Strip(sp.record["Pa_" \o subvalue_map[j][2]])

\* C23: when a first run ended with every request answered with success by
\* a remote that stores what it is sent, a second run with fresh managers
\* over the same export files computes empty delete, create and update sets
\* and sends no create, update or delete request.
C23_SecondPassIdle ==
    pass = 2 =>
        /\ \A m \in Managers, h \in Methods : DOMAIN sent[m][h] = {}
        /\ \A m \in SyncManagers, p \in Phases : view[m][p].set = {}

====
